---- MODULE Spec2Model ----
(***************************************************************************)
(* Model of homework01/cs102_pandas.py: the query functions over the ISU   *)
(* roster (a pandas DataFrame), the patronymic classifier                  *)
(* gender_identification and the run detection of                          *)
(* find_consecutive_students.                                              *)
(*                                                                         *)
(* A DataFrame is a sequence of rows; a row is a record of its columns.    *)
(* Column names are transliterated:  isu = "ису", fac = "факультет",      *)
(* crs = "курс", grp = "группа", grade = "средний_балл"; surname, name and *)
(* patronim are the columns the main block derives from "фио".            *)
(* Text that the regular expressions inspect is a sequence of characters,  *)
(* each character written as a short ASCII name (see the Characters        *)
(* section).                                                               *)
(***************************************************************************)
EXTENDS Integers, Sequences, FiniteSets, TLC

VARIABLES
    data,      \* the roster: the DataFrame `data` of the main block
    fsuir,     \* the slice returned by filter_fsuir_students (main, line 216)
    patronym,  \* the argument of a direct call of gender_identification
    locals,    \* the local frames/columns of the last call
    ret        \* the outcome of the last call: [fn, raised, val]

vars == <<data, fsuir, patronym, locals, ret>>

(***************************************************************************)
(* Bounds of the model.                                                    *)
(***************************************************************************)
MaxId == 12
MaxPieces == 4
MaxRows == 3
MaxFacRows == 5
MaxHomRows == 4
MaxPatrRows == 3

(***************************************************************************)
(* Generic helpers.                                                        *)
(***************************************************************************)
NoValue == <<>>
NaN == {}

\* fsuir before the main block has assigned it
NoSlice == [set |-> FALSE, df |-> <<>>]

Range(s) == {s[i] : i \in 1..Len(s)}

RECURSIVE SumSeq(_)
SumSeq(s) == IF s = <<>> THEN 0 ELSE Head(s) + SumSeq(Tail(s))

RECURSIVE SetToSortedSeq(_)
SetToSortedSeq(S) ==
    IF S = {} THEN <<>>
    ELSE LET m == CHOOSE x \in S : \A y \in S : x <= y
         IN <<m>> \o SetToSortedSeq(S \ {m})

Reverse(s) == [i \in 1..Len(s) |-> s[Len(s) + 1 - i]]

\* s with its second half moved to the front
Rotate(s) ==
    LET h == Len(s) \div 2
    IN SubSeq(s, h + 1, Len(s)) \o SubSeq(s, 1, h)

SetMin(S) == CHOOSE x \in S : \A y \in S : x <= y

Min2(a, b) == IF a < b THEN a ELSE b

(***************************************************************************)
(* Rows.                                                                   *)
(***************************************************************************)
FSUIR == "fsuir"          \* the faculty name compared at line 15
ThirdCourse == 3          \* the course label "3-й" compared at line 163

Row(i, f, c, g, s, n, p, gr) ==
    [isu |-> i, fac |-> f, crs |-> c, grp |-> g,
     surname |-> s, name |-> n, patronim |-> p, grade |-> gr]

\* the column "фио" the other name columns are split from (lines 205-213)
Fio(r) == <<r.surname, r.name, r.patronim>>

Column(df, col) == [i \in 1..Len(df) |-> df[i][col]]

\* Series.unique(): the distinct values in order of first appearance
RECURSIVE Unique(_)
Unique(s) ==
    IF s = <<>> THEN <<>>
    ELSE LET rest == Unique(SubSeq(s, 1, Len(s) - 1))
             x == s[Len(s)]
         IN IF x \in Range(rest) THEN rest ELSE Append(rest, x)

\* the number of rows of a column holding value v
CountOf(s, v) == Cardinality({i \in 1..Len(s) : s[i] = v})

(***************************************************************************)
(* find_consecutive_students (lines 186-199).                              *)
(***************************************************************************)
MinRun == 5        \* area_sizes >= 5, line 196
HeadRows == 5      \* DataFrame.head() keeps 5 rows, line 199

\* sort_values with inplace=True: the frame it is called on is re-sorted
SortValuesInplace(df, col) ==
    LET sorted == SortSeq(df, LAMBDA a, b : a[col] < b[col])
    IN [result |-> sorted, self |-> sorted]
\* df.sort_values(by=col, ascending=True): `result` is the new, sorted frame
\* the call returns, `self` the frame it was called on, left as it was
\* (inplace defaults to False)
SortValues(df, col) ==
    [result |-> SortSeq(df, LAMBDA a, b : a[col] < b[col]), self |-> df]

\* isu["ису"].diff(): NaN for the first row, else the difference to the previous
Diff(ids) == [i \in 1..Len(ids) |-> IF i = 1 THEN NaN ELSE {ids[i] - ids[i - 1]}]

\* a test that also lets a step of 2 continue an area
StartsAreaLoose(d) == d \notin {{1}, {2}}
\* isu["diff"] != 1 : NaN != 1 is True
StartsArea(d) == d /= {1}

\* (isu["diff"] != 1).cumsum()
Area(diff) ==
    [i \in 1..Len(diff) |-> Cardinality({j \in 1..i : StartsArea(diff[j])})]

\* area_sizes > 5
QualifiesStrict(size) == size > MinRun
\* area_sizes >= 5
Qualifies(size) == size >= MinRun

\* area_sizes[area_sizes >= 5].index, with area_sizes = groupby("area").size()
ValidAreas(area) == {a \in Range(area) : Qualifies(CountOf(area, a))}

\* head(4)
HeadShort(df) == SubSeq(df, 1, Min2(Len(df), HeadRows - 1))
\* DataFrame.head()
HeadDefault(df) == SubSeq(df, 1, Min2(Len(df), HeadRows))

FindConsecutiveLocals(sorted) ==
    LET diff == Diff(Column(sorted, "isu"))
        area == Area(diff)
        valid == ValidAreas(area)
        frame == [i \in 1..Len(sorted) |->
                     [row |-> sorted[i], diff |-> diff[i], area |-> area[i]]]
    IN [arg |-> data,
        isu |-> frame,
        valid_areas |-> valid,
        firsts |-> SelectSeq(frame, LAMBDA r : r.area \in valid)]

\* firsts[["фио", "факультет", "курс", "группа", "ису"]]
ProjectConsecutive(r) ==
    [fio |-> Fio(r.row), fac |-> r.row.fac, crs |-> r.row.crs,
     grp |-> r.row.grp, isu |-> r.row.isu]

FindConsecutiveStudents ==
    /\ LET l == FindConsecutiveLocals(SortValues(data, "isu").result)
       IN /\ locals' = l
          /\ ret' = [fn |-> "find_consecutive_students", raised |-> FALSE,
                     val |-> HeadDefault([i \in 1..Len(l.firsts) |->
                                            ProjectConsecutive(l.firsts[i])])]
    /\ data' = SortValues(data, "isu").self
    /\ UNCHANGED <<fsuir, patronym>>

\* rosters whose only varying column is the student number
IdRow(i) == Row(i, "A", 1, 11, "s1", <<"a", "en">>, <<>>, 4)

\* every set of student numbers up to MaxId, and the numbers 10..15, each in
\* ascending, descending and rotated row order
IdSets == (SUBSET (1..MaxId)) \cup {10..15}

IdRosters ==
    UNION {LET ids == SetToSortedSeq(S)
               asc == [k \in 1..Len(ids) |-> IdRow(ids[k])]
           IN {asc, Reverse(asc), Rotate(asc)} : S \in IdSets}

InitRuns ==
    /\ data \in IdRosters
    /\ fsuir = NoSlice
    /\ patronym = NoValue
    /\ locals = NoValue
    /\ ret = NoValue

SpecRuns == InitRuns /\ [][FindConsecutiveStudents]_vars

(***************************************************************************)
(* Characters.  A string is a sequence of characters, each named in ASCII: *)
(*   "a"  U+0430   "ve" U+0432   "ie" U+0435   "i"  U+0438   "en" U+043D    *)
(*   "o"  U+043E   "er" U+0440   "che" U+0447   "PE" U+041F                 *)
(*        (all inside U+0410..U+044F)                                       *)
(*   "yo" U+0451 (the letter io, outside U+0410..U+044F)                    *)
(*   "hyphen" U+002D   "endash" U+2013   "emdash" U+2014   "space" U+0020   *)
(***************************************************************************)
\* the class [U+0410-U+042F U+0430-U+044F] of both patterns, lines 60-61
CyrRange == {"a", "ve", "ie", "i", "en", "o", "er", "che", "PE"}

\* \w of a str pattern: every letter, so also U+0451
WordChar == CyrRange \cup {"yo"}

\* the class of the male pattern's prefix, line 61: the range, U+002D, U+2013
MalePrefixClass == CyrRange \cup {"hyphen", "endash"}

Evna == <<"ie", "ve", "en", "a">>
Ovna == <<"o", "ve", "en", "a">>
Ichna == <<"i", "che", "en", "a">>
Inichna == <<"i", "en", "i", "che", "en", "a">>
Ovich == <<"o", "ve", "i", "che">>
Evich == <<"ie", "ve", "i", "che">>
Ich == <<"i", "che">>

FemaleEndings == {Evna, Ovna, Ichna, Inichna}     \* line 60
MaleEndings == {Ovich, Evich, Ich}                \* line 61

IsWordAt(s, k) == k \in 1..Len(s) /\ s[k] \in WordChar

\* \b between s[k] and s[k+1] (k = 0: the start, k = Len(s): the end)
Boundary(s, k) == IsWordAt(s, k) /= IsWordAt(s, k + 1)

\* s continues with the characters of e right after position k
EndingAt(s, k, e) == k + Len(e) <= Len(s) /\ SubSeq(s, k + 1, k + Len(e)) = e

\* re.search(female_patr, s): \b, one or more range letters, an ending, \b,
\* starting anywhere
female_patr(s) ==
    \E i \in 1..Len(s) : \E j \in i..Len(s) : \E e \in FemaleEndings :
        /\ Boundary(s, i - 1)
        /\ \A k \in i..j : s[k] \in CyrRange
        /\ EndingAt(s, j, e)
        /\ Boundary(s, j + Len(e))

\* re.search(male_patr, s): ^, \b, any number of prefix-class characters, one
\* or more range letters, an ending, \b
male_patr(s) ==
    /\ Boundary(s, 0)
    /\ \E p \in 0..Len(s) : \E q \in (p + 1)..Len(s) : \E e \in MaleEndings :
          /\ \A k \in 1..p : s[k] \in MalePrefixClass
          /\ \A k \in (p + 1)..q : s[k] \in CyrRange
          /\ EndingAt(s, q, e)
          /\ Boundary(s, q + Len(e))

\* lines 63-68
gender_identification(s) ==
    IF female_patr(s) THEN "female"
    ELSE IF male_patr(s) THEN "male"
    ELSE "unknown"

GenderIdentification ==
    /\ ret' = [fn |-> "gender_identification", raised |-> FALSE,
               val |-> gender_identification(patronym)]
    /\ locals' = NoValue
    /\ UNCHANGED <<data, fsuir, patronym>>

\* the strings the classifier is tried on: up to MaxPieces pieces, a piece
\* being a stem letter, an ending, or a separator
Pieces ==
    {<<"er">>, <<"yo">>, <<"hyphen">>, <<"endash">>, <<"emdash">>, <<"space">>}
        \cup FemaleEndings \cup MaleEndings

RECURSIVE Strings(_)
Strings(n) ==
    IF n = 0 THEN {<<>>}
    ELSE LET prev == Strings(n - 1)
         IN prev \cup {s \o p : s \in prev, p \in Pieces}

InitGender ==
    /\ data = <<>>
    /\ fsuir = NoSlice
    /\ patronym \in Strings(MaxPieces)
    /\ locals = NoValue
    /\ ret = NoValue

SpecGender == InitGender /\ [][GenderIdentification]_vars

(***************************************************************************)
(* Claims about the run detection.                                         *)
(***************************************************************************)
Called(f) == ret /= NoValue /\ ret.fn = f

Ids(df) == {df[i].isu : i \in 1..Len(df)}

\* the student numbers of the rows the detection put into area a
GroupIds(a) == {locals.isu[i].row.isu : i \in {j \in 1..Len(locals.isu) : locals.isu[j].area = a}}

GroupRows(a) == Cardinality({j \in 1..Len(locals.isu) : locals.isu[j].area = a})

Consecutive(S) ==
    LET s == SetToSortedSeq(S)
    IN \A i \in 1..(Len(s) - 1) : s[i + 1] = s[i] + 1

\* the maximal runs of consecutive integers of a set of integers
MaxRuns(S) ==
    {lo..hi : <<lo, hi>> \in
        {p \in S \X S : /\ p[1] <= p[2]
                        /\ (p[1]..p[2]) \subseteq S
                        /\ (p[1] - 1) \notin S
                        /\ (p[2] + 1) \notin S}}

QualifyingRuns(S) == {r \in MaxRuns(S) : Cardinality(r) >= 5}

\* C1: every qualifying group of find_consecutive_students has at least 5
\* rows, its student numbers in ascending order step by exactly 1, and the
\* qualifying groups are pairwise disjoint, so together they hold at most as
\* many rows as the roster.
C1_RunsSound ==
    Called("find_consecutive_students") =>
        /\ \A a \in locals.valid_areas :
              /\ GroupRows(a) >= 5
              /\ Cardinality(GroupIds(a)) = GroupRows(a)
              /\ Consecutive(GroupIds(a))
        /\ \A a, b \in locals.valid_areas : a /= b => GroupIds(a) \cap GroupIds(b) = {}
        /\ SumSeq([k \in 1..Cardinality(locals.valid_areas) |->
                      GroupRows(SetToSortedSeq(locals.valid_areas)[k])]) <= Len(data)

C1_Witness ==
    /\ Called("find_consecutive_students")
    /\ Cardinality(locals.valid_areas) = 2
    /\ data[1].isu > data[2].isu

\* C2: the qualifying groups are exactly the maximal runs of consecutive
\* student numbers of length >= 5, one group per run; shorter runs are left
\* out, so an empty roster or one with no two consecutive numbers gives no
\* group; the numbers 1,2,3,4,5,9,10 give the one group 1..5.
C2_RunsComplete ==
    Called("find_consecutive_students") =>
        /\ {GroupIds(a) : a \in locals.valid_areas} = QualifyingRuns(Ids(data))
        /\ Cardinality(locals.valid_areas) = Cardinality(QualifyingRuns(Ids(data)))
        /\ (Ids(data) = {} => locals.valid_areas = {} /\ ret.val = <<>>)
        /\ ((\A i \in Ids(data) : (i + 1) \notin Ids(data)) =>
                locals.valid_areas = {} /\ ret.val = <<>>)
        /\ (Ids(data) = {1, 2, 3, 4, 5, 9, 10} =>
                {GroupIds(a) : a \in locals.valid_areas} = {1..5})

C2_Witness ==
    /\ Called("find_consecutive_students")
    /\ Ids(data) = {1, 2, 3, 4, 5, 9, 10}
    /\ Cardinality(locals.valid_areas) = 1

\* C3: whatever the order of the roster rows, find_consecutive_students
\* returns the rows with the 5 smallest student numbers of the qualifying run
\* with the smallest numbers, in ascending order, and returns no row exactly
\* when no run of length >= 5 exists; for the numbers 10..15 it returns the
\* rows numbered 10,11,12,13,14.
C3_FirstFive ==
    Called("find_consecutive_students") =>
        LET runs == QualifyingRuns(Ids(data))
            out == Column(ret.val, "isu")
        IN /\ ~ret.raised
           /\ (runs = {} <=> ret.val = <<>>)
           /\ runs /= {} =>
                LET first == CHOOSE r \in runs : \A q \in runs : SetMin(r) <= SetMin(q)
                    lo == SetMin(first)
                IN /\ out = <<lo, lo + 1, lo + 2, lo + 3, lo + 4>>
                   /\ Range(out) \subseteq first
                   /\ \A r \in Range(ret.val) : \E d \in Range(data) :
                         /\ r.isu = d.isu /\ r.fio = Fio(d)
                         /\ r.fac = d.fac /\ r.crs = d.crs /\ r.grp = d.grp
           /\ (Ids(data) = 10..15 => out = <<10, 11, 12, 13, 14>>)

C3_Witness ==
    /\ Called("find_consecutive_students")
    /\ Ids(data) = 10..15
    /\ data[1].isu = 13
    /\ Column(ret.val, "isu") = <<10, 11, 12, 13, 14>>

(***************************************************************************)
(* Claims about gender_identification.                                     *)
(***************************************************************************)
CyrillicLetters == CyrRange \cup {"yo"}
Joiners == {"hyphen", "endash", "emdash"}

\* positions i..j of s hold a whole word: letters only, not continued by a
\* letter on either side
WholeWord(s, i, j) ==
    /\ i <= j
    /\ \A k \in i..j : s[k] \in CyrillicLetters
    /\ ~(i > 1 /\ s[i - 1] \in CyrillicLetters)
    /\ ~(j < Len(s) /\ s[j + 1] \in CyrillicLetters)

\* positions i..j of s are one or more letters followed by an ending of E
StemAndEnding(s, i, j, E) ==
    \E e \in E : j - i + 1 > Len(e) /\ SubSeq(s, j - Len(e) + 1, j) = e

ContainsFemaleWord(s) ==
    \E i \in 1..Len(s) : \E j \in i..Len(s) :
        WholeWord(s, i, j) /\ StemAndEnding(s, i, j, FemaleEndings)

\* C4: first match wins: a patronymic holding a whole word of one or more
\* Cyrillic letters followed by one of the female endings is classified
\* female, also when the male pattern matches it too; male is returned only
\* when the female pattern does not match.
C4_FemaleFirst ==
    Called("gender_identification") =>
        /\ ContainsFemaleWord(patronym) => ret.val = "female"
        /\ ret.val = "male" => ~female_patr(patronym)

\* s is a compound: two or more parts, each a non-empty run of letters of L,
\* joined by single characters of J
IsCompound(s, L, J) ==
    /\ Len(s) >= 3
    /\ \A k \in 1..Len(s) : s[k] \in L \cup J
    /\ \E k \in 1..Len(s) : s[k] \in J
    /\ s[1] \in L /\ s[Len(s)] \in L
    /\ \A k \in 1..(Len(s) - 1) : ~(s[k] \in J /\ s[k + 1] \in J)

\* the first position of the last part of a compound
LastPartStart(s, J) ==
    1 + (CHOOSE k \in 0..Len(s) :
            /\ k = 0 \/ s[k] \in J
            /\ \A m \in (k + 1)..Len(s) : s[m] \notin J)

\* C5: a compound patronymic whose parts are runs of Cyrillic letters joined
\* by a hyphen, by an en dash or by an em dash, and whose last part ends in
\* ovich, evich or ich, is classified male, for each of the three joiners.
\* Stated for parts of range letters none of which is a female word, and a
\* last part with a letter before its ending.
C5_CompoundMale ==
    Called("gender_identification") =>
        \A joiner \in Joiners :
            (/\ IsCompound(patronym, CyrRange, {joiner})
             /\ ~ContainsFemaleWord(patronym)
             /\ StemAndEnding(patronym, LastPartStart(patronym, {joiner}),
                              Len(patronym), MaleEndings))
                => ret.val = "male"

(***************************************************************************)
(* Series helpers.                                                         *)
(***************************************************************************)
\* Series.value_counts() as a mapping value -> number of rows
ValueCounts(col) == [v \in Range(col) |-> CountOf(col, v)]

\* numb >= 1
IsSharedOrSingle(numb) == numb >= 1
\* numb > 1, lines 33, 34, 39, 46
IsShared(numb) == numb > 1

RECURSIVE SumShared(_, _)
\* sum(numb for numb in counts if numb > 1), over the values in S
SumShared(counts, S) ==
    IF S = {} THEN 0
    ELSE LET v == CHOOSE x \in S : TRUE
         IN (IF IsShared(counts[v]) THEN counts[v] ELSE 0) + SumShared(counts, S \ {v})

\* every ordering of the elements of S
Perms(S) ==
    {o \in [1..Cardinality(S) -> S] : \A i, j \in 1..Cardinality(S) : o[i] = o[j] => i = j}

\* value_counts(sort=False): any order of the distinct values
ValueCountsOrdersUnsorted(col) == Perms(Range(col))
\* the index of value_counts(): the distinct values by descending count; the
\* order among equal counts is left open
ValueCountsOrders(col) ==
    {o \in Perms(Range(col)) :
        \A i, j \in 1..Len(o) : i < j => CountOf(col, o[i]) >= CountOf(col, o[j])}

\* max(d, key=d.get) over the keys in iteration order: the first key with
\* the largest value
MaxKey(keys, d) ==
    keys[CHOOSE i \in 1..Len(keys) :
            /\ \A j \in 1..Len(keys) : d[keys[j]] <= d[keys[i]]
            /\ \A j \in 1..(i - 1) : d[keys[j]] < d[keys[i]]]

Returned(f, v) == [fn |-> f, raised |-> FALSE, val |-> v]
Raised(f, e) == [fn |-> f, raised |-> TRUE, val |-> e]

\* the frames a query on a slice can be given: the roster, and fsuir as the
\* main block does (lines 220, 225)
Slices == {"data"} \cup (IF fsuir.set THEN {"fsuir"} ELSE {})

Frame(which) == IF which = "data" THEN data ELSE fsuir.df

(***************************************************************************)
(* filter_fsuir_students (lines 10-18), called at line 216.                *)
(***************************************************************************)
FilterFsuirStudents ==
    LET fsuirs == SelectSeq(data, LAMBDA r : r.fac = FSUIR)
        students_numb == Len(fsuirs)
        groups_numb == Len(Unique(Column(fsuirs, "grp")))
    IN /\ ret' = Returned("filter_fsuir_students",
                          <<students_numb, groups_numb, fsuirs>>)
       /\ fsuir' = [set |-> TRUE, df |-> fsuirs]
       /\ locals' = [arg |-> data]
       /\ UNCHANGED <<data, patronym>>

(***************************************************************************)
(* find_homonymous_students (lines 22-50).                                 *)
(***************************************************************************)
\* sum(numb for numb in df.surname.value_counts() if numb > 1)
HomonymsIn(df) ==
    LET surnames == ValueCounts(Column(df, "surname"))
    IN SumShared(surnames, DOMAIN surnames)

FindHomonymousStudents ==
    \E which \in Slices :
        LET df == Frame(which)
            surnames == ValueCounts(Column(df, "surname"))
            exist == \E v \in DOMAIN surnames : IsShared(surnames[v])
            homonyms_numb == HomonymsIn(df)
            by_course == SortValues(df, "crs")
            courses == SetToSortedSeq(Range(Column(by_course.result, "crs")))
            hom_on_course ==
                [k \in 1..Len(courses) |->
                    <<courses[k],
                      HomonymsIn(SelectSeq(by_course.result, LAMBDA r : r.crs = courses[k]))>>]
            by_group == SortValues(by_course.result, "grp")
            groups == Unique(Column(by_group.result, "grp"))
            groups_with_homs ==
                [g \in Range(groups) |->
                    HomonymsIn(SelectSeq(by_group.result, LAMBDA r : r.grp = g))]
        IN /\ locals' = [arg |-> df, df |-> by_group.result]
           /\ ret' = IF groups = <<>>
                     THEN Raised("find_homonymous_students", "ValueError")
                     ELSE Returned("find_homonymous_students",
                                   <<exist, homonyms_numb, hom_on_course,
                                     MaxKey(groups, groups_with_homs)>>)
           /\ data' = IF which = "data" THEN by_course.self ELSE data
           /\ fsuir' = IF which = "fsuir" THEN [fsuir EXCEPT !.df = by_course.self]
                       ELSE fsuir
           /\ UNCHANGED patronym

(***************************************************************************)
(* analyze_patronyms (lines 71-83).                                        *)
(***************************************************************************)
\* no filter: every row, also those without patronymic
StudWithPatrAll(df) == df
\* df[df.patronim != ""]
StudWithPatr(df) == SelectSeq(df, LAMBDA r : r.patronim /= <<>>)

AnalyzePatronyms ==
    \E which \in Slices :
        LET df == Frame(which)
            stud_without_patr ==
                Len(SelectSeq(Column(df, "patronim"), LAMBDA patr : patr = <<>>))
            stud_with_patr == StudWithPatr(df)
            applied == [i \in 1..Len(stud_with_patr) |->
                           gender_identification(stud_with_patr[i].patronim)]
            genders == ValueCounts(applied)
        IN /\ locals' = [arg |-> df,
                         stud_with_patr |-> stud_with_patr,
                         gi_args |-> Range(Column(stud_with_patr, "patronim"))]
           /\ ret' = Returned("analyze_patronyms", <<stud_without_patr, genders>>)
           /\ UNCHANGED <<data, fsuir, patronym>>

(***************************************************************************)
(* faculty_statistics (lines 87-99).                                       *)
(***************************************************************************)
FacultyStatistics ==
    \E index \in ValueCountsOrders(Column(data, "fac")) :
        LET col == Column(data, "fac")
            n == Len(index)
            \* rows 1..n of the DataFrame stats
            stats == [i \in 1..n |->
                         [faculty |-> index[i], students_numb |-> CountOf(col, index[i])]]
        IN /\ locals' = [arg |-> data, stats |-> stats]
           /\ ret' = IF n = 0
                     THEN Raised("faculty_statistics", "KeyError")
                     ELSE Returned("faculty_statistics",
                                   <<stats,
                                     <<stats[1].faculty, stats[1].students_numb>>,
                                     <<stats[n].faculty, stats[n].students_numb>>>>)
           /\ UNCHANGED <<data, fsuir, patronym>>

(***************************************************************************)
(* Numbers.  A mean or a median is kept as a fraction [num, den].          *)
(***************************************************************************)
Frac(n, d) == [num |-> n, den |-> d]

\* a > b for fractions; False when either is NaN
FracGreater(a, b) == a.den > 0 /\ b.den > 0 /\ a.num * b.den > b.num * a.den

\* round() of num/den to an integer, ties to the even neighbour
RoundHalfEven(num, den) ==
    LET q == num \div den
        r == num % den
    IN IF 2 * r < den THEN q
       ELSE IF 2 * r > den THEN q + 1
       ELSE IF q % 2 = 0 THEN q ELSE q + 1

\* the NaN among the fractions
FracNaN == Frac(0, 0)

\* Series.mean() of a sequence of integers; NaN for an empty one
Mean(xs) == IF xs = <<>> THEN FracNaN ELSE Frac(SumSeq(xs), Len(xs))

\* Series.median(): the middle of the sorted values, or the mean of the two
\* middle ones
Median(xs) ==
    LET sorted == SortSeq(xs, LAMBDA a, b : a < b)
        n == Len(xs)
    IN IF n = 0 THEN FracNaN
       ELSE IF n % 2 = 1 THEN Frac(sorted[(n + 1) \div 2], 1)
       ELSE Frac(sorted[n \div 2] + sorted[n \div 2 + 1], 2)

\* describe()["top"] of a non-empty column: the first entry of value_counts()
Tops(col) == {o[1] : o \in ValueCountsOrders(col)}

(***************************************************************************)
(* course_statistics (lines 103-114).                                      *)
(***************************************************************************)
\* data[data.курс == cur].факультет.value_counts() as a list of counts
FacultyCountsOfCourse(df, cur) ==
    LET col == Column(SelectSeq(df, LAMBDA r : r.crs = cur), "fac")
        facs == Unique(col)
    IN [k \in 1..Len(facs) |-> CountOf(col, facs[k])]

CourseStatistics ==
    LET courses == SetToSortedSeq(Range(Column(data, "crs")))
        stats_c_av == [k \in 1..Len(courses) |->
                          <<courses[k], Mean(FacultyCountsOfCourse(data, courses[k]))>>]
        stats_c_med == [k \in 1..Len(courses) |->
                           <<courses[k], Median(FacultyCountsOfCourse(data, courses[k]))>>]
    IN /\ ret' = Returned("course_statistics", <<stats_c_av, stats_c_med>>)
       /\ locals' = [arg |-> data]
       /\ UNCHANGED <<data, fsuir, patronym>>

(***************************************************************************)
(* most_popular_name (lines 118-137).                                      *)
(***************************************************************************)
\* round(share, 2) of count/total, in hundredths
RoundedShare(count, total) == RoundHalfEven(100 * count, total)

MostPopularName ==
    /\ IF data = <<>>
       \* every "top" is NaN and value_counts(normalize=True)[NaN] has no entry
       THEN ret' = Raised("most_popular_name", "KeyError")
       ELSE \E top_name \in Tops(Column(data, "name")) :
              LET named == SelectSeq(data, LAMBDA r : r.name = top_name)
              IN \E top_group \in Tops(Column(named, "grp")) :
                   LET grouped == SelectSeq(named, LAMBDA r : r.grp = top_group)
                   IN \E top_fclt \in Tops(Column(grouped, "fac")) :
                        LET of_fclt == SelectSeq(grouped, LAMBDA r : r.fac = top_fclt)
                        IN \E top_course \in Tops(Column(of_fclt, "crs")) :
                             ret' = Returned("most_popular_name",
                                             <<top_name, top_group, top_fclt, top_course,
                                               RoundedShare(Len(named), Len(data))>>)
    /\ locals' = [arg |-> data]
    /\ UNCHANGED <<data, fsuir, patronym>>

(***************************************************************************)
(* find_students_with_name_starting_P (lines 141-153).                     *)
(***************************************************************************)
\* the class after the first letter at line 145: the range, U+0451, U+002D,
\* U+2013
NameClass == CyrRange \cup {"yo", "hyphen", "endash"}

\* re.match(name_pat, s): \b, U+041F, one or more class characters, \b, at
\* the start of s
name_pat(s) ==
    /\ Len(s) >= 2
    /\ s[1] = "PE"
    /\ \E q \in 2..Len(s) :
          /\ \A k \in 2..q : s[k] \in NameClass
          /\ Boundary(s, q)

FindStudentsWithNameStartingP ==
    /\ \E index \in ValueCountsOrders(Column(data, "name")) :
          LET names == ValueCounts(Column(data, "name"))
              ones == SelectSeq(index, LAMBDA n : name_pat(n) /\ names[n] = 1)
              \* each name of ones has exactly one row
              rare == [k \in 1..Len(ones) |->
                          LET r == SelectSeq(data, LAMBDA d : d.name = ones[k])[1]
                          IN [fio |-> Fio(r), fac |-> r.fac, crs |-> r.crs]]
          IN ret' = IF ones = <<>>
                    \* pd.concat of an empty list
                    THEN Raised("find_students_with_name_starting_P", "ValueError")
                    ELSE Returned("find_students_with_name_starting_P", rare)
    /\ locals' = [arg |-> data]
    /\ UNCHANGED <<data, fsuir, patronym>>

(***************************************************************************)
(* highest_avg_grade_faculty (lines 157-182).                              *)
(***************************************************************************)
\* slice["пол"] = values, slice being a frame built by boolean indexing of
\* base: the column lands on slice, base keeps its columns
SetItem(base, slice, values) ==
    [slice |-> [i \in 1..Len(slice) |-> [row |-> slice[i], pol |-> values[i]]],
     base |-> base]

\* max(d, key=d.get) for fraction values: the first key with the largest one
MaxMeanKey(keys, d) ==
    keys[CHOOSE i \in 1..Len(keys) :
            /\ \A j \in 1..Len(keys) : ~FracGreater(d[keys[j]], d[keys[i]])
            /\ \A j \in 1..(i - 1) : FracGreater(d[keys[i]], d[keys[j]])]

\* the mean grade of the rows of faculty f whose "пол" is g
MeanGradeOf(frame, f, g) ==
    Mean(Column(Column(SelectSeq(frame, LAMBDA r : r.row.fac = f /\ r.pol = g), "row"),
                "grade"))

\* return f, pol, round(x): round() of NaN raises or hands NaN back, by the
\* numpy build (nan_raises)
RoundOutcome(f, pol, x, nan_raises) ==
    IF x = FracNaN
    THEN IF nan_raises
         THEN Raised("highest_avg_grade_faculty", "ValueError")
         ELSE Returned("highest_avg_grade_faculty", <<f, pol, NaN>>)
    ELSE Returned("highest_avg_grade_faculty", <<f, pol, RoundHalfEven(x.num, x.den)>>)

HighestAvgGradeFaculty ==
    LET selected == SelectSeq(data, LAMBDA r : r.crs = ThirdCourse)
        fclts == Unique(Column(selected, "fac"))
        top_point_fclt_kw ==
            [f \in Range(fclts) |->
                Mean(Column(SelectSeq(selected, LAMBDA r : r.fac = f), "grade"))]
    IN IF fclts = <<>>
       THEN /\ ret' = Raised("highest_avg_grade_faculty", "ValueError")
            /\ locals' = [arg |-> data, crs_stat |-> selected]
            /\ UNCHANGED <<data, fsuir, patronym>>
       ELSE LET top_point_fclt == MaxMeanKey(fclts, top_point_fclt_kw)
                assigned ==
                    SetItem(data, selected,
                            [i \in 1..Len(selected) |->
                                IF selected[i].fac = top_point_fclt
                                THEN gender_identification(selected[i].patronim)
                                ELSE "NaN"])
                crs_stat == assigned.slice
                crs_stat_m == MeanGradeOf(crs_stat, top_point_fclt, "male")
                crs_stat_w == MeanGradeOf(crs_stat, top_point_fclt, "female")
            IN /\ \E nan_raises \in BOOLEAN :
                     ret' = IF FracGreater(crs_stat_m, crs_stat_w)
                            THEN RoundOutcome(top_point_fclt, "male", crs_stat_m,
                                              nan_raises)
                            ELSE RoundOutcome(top_point_fclt, "female", crs_stat_w,
                                              nan_raises)
               /\ locals' = [arg |-> data, crs_stat |-> crs_stat]
               /\ data' = assigned.base
               /\ UNCHANGED <<fsuir, patronym>>

(***************************************************************************)
(* Rosters for the single queries.                                         *)
(***************************************************************************)
\* every sequence of at most n elements of S
Tuples(S, n) == UNION {[1..k -> S] : k \in 0..n}

Ivanovna == <<"i", "ve", "a", "en">> \o Ovna
Ivanovich == <<"i", "ve", "a", "en">> \o Ovich
Semyonovna == <<"er", "yo", "en">> \o Ovna

PatrSamples == {<<>>, Ivanovna, Ivanovich, Semyonovna}

PatrRow(i, x) == Row(i, x[1], 1, 11, "s1", <<"a", "en">>, x[2], 4)

InitPatr ==
    /\ data \in {[i \in 1..Len(f) |-> PatrRow(i, f[i])] :
                    f \in Tuples({FSUIR, "B"} \X PatrSamples, MaxPatrRows)}
    /\ fsuir = NoSlice
    /\ patronym = NoValue
    /\ locals = NoValue
    /\ ret = NoValue

SpecPatr == InitPatr /\ [][FilterFsuirStudents \/ AnalyzePatronyms]_vars

FacRow(i, x) == Row(i, x, 1, 11, "s1", <<"a", "en">>, <<>>, 4)

\* the roster with 10 rows of faculty A, 20 of B and 5 of C
ExampleFacRoster ==
    [i \in 1..35 |-> FacRow(i, IF i <= 10 THEN "A" ELSE IF i <= 30 THEN "B" ELSE "C")]

InitFaculty ==
    /\ data \in {[i \in 1..Len(f) |-> FacRow(i, f[i])] :
                    f \in Tuples({"A", "B", "C"}, MaxFacRows)} \cup {ExampleFacRoster}
    /\ fsuir = NoSlice
    /\ patronym = NoValue
    /\ locals = NoValue
    /\ ret = NoValue

SpecFaculty == InitFaculty /\ [][FacultyStatistics]_vars

HomRow(i, x) == Row(i, FSUIR, x[2][1], x[2][2], x[1], <<"a", "en">>, <<>>, 4)

InitHom ==
    /\ data \in {[i \in 1..Len(f) |-> HomRow(i, f[i])] :
                    f \in Tuples({"s1", "s2"} \X {<<1, 11>>, <<1, 12>>, <<2, 21>>},
                                 MaxHomRows)}
    /\ fsuir = NoSlice
    /\ patronym = NoValue
    /\ locals = NoValue
    /\ ret = NoValue

SpecHom == InitHom /\ [][FindHomonymousStudents]_vars

(***************************************************************************)
(* Claims about the single queries.                                        *)
(***************************************************************************)
RECURSIVE SumAll(_, _)
SumAll(counts, S) ==
    IF S = {} THEN 0
    ELSE LET v == CHOOSE x \in S : TRUE
         IN counts[v] + SumAll(counts, S \ {v})

\* C6: analyze_patronyms partitions the slice: every record with a non-empty
\* patronymic is counted in exactly one of the buckets female, male, unknown,
\* nothing raises, the bucket counts add up to the number of such records,
\* with the without-patronymic count to the number of records, and the
\* classifier is never applied to the empty string.
C6_PatronymPartition ==
    Called("analyze_patronyms") =>
        LET df == locals.arg
            genders == ret.val[2]
            with == Cardinality({i \in 1..Len(df) : df[i].patronim /= <<>>})
        IN /\ ~ret.raised
           /\ DOMAIN genders \subseteq {"female", "male", "unknown"}
           /\ \A g \in DOMAIN genders : genders[g] >= 1
           /\ SumAll(genders, DOMAIN genders) = with
           /\ SumAll(genders, DOMAIN genders) + ret.val[1] = Len(df)
           /\ <<>> \notin locals.gi_args

C6_Witness ==
    /\ Called("analyze_patronyms")
    /\ ret.val[1] = 1
    /\ DOMAIN ret.val[2] = {"female", "unknown"}
    /\ Len(locals.arg) = 3

FacultiesOf(df) == Range(Column(df, "fac"))

RowsOfFaculty(df, f) == Cardinality({i \in 1..Len(df) : df[i].fac = f})

\* C9: on a non-empty roster faculty_statistics returns as maximum a faculty
\* with its row count, which is >= the count of every faculty, as minimum one
\* whose count is <= every count, and a table listing each faculty once with
\* its row count in non-increasing order; the counts A:10, B:20, C:5 give
\* (B,20) and (C,5).
C9_FacultyMaxMin ==
    (Called("faculty_statistics") /\ Len(data) > 0) =>
        /\ ~ret.raised
        /\ LET stats == ret.val[1]
               max == ret.val[2]
               min == ret.val[3]
           IN /\ max[1] \in FacultiesOf(data) /\ max[2] = RowsOfFaculty(data, max[1])
              /\ min[1] \in FacultiesOf(data) /\ min[2] = RowsOfFaculty(data, min[1])
              /\ \A f \in FacultiesOf(data) :
                    /\ max[2] >= RowsOfFaculty(data, f)
                    /\ min[2] <= RowsOfFaculty(data, f)
              /\ Len(stats) = Cardinality(FacultiesOf(data))
              /\ {stats[i].faculty : i \in 1..Len(stats)} = FacultiesOf(data)
              /\ \A i \in 1..Len(stats) :
                    stats[i].students_numb = RowsOfFaculty(data, stats[i].faculty)
              /\ \A i \in 1..(Len(stats) - 1) :
                    stats[i].students_numb >= stats[i + 1].students_numb
              /\ (data = ExampleFacRoster => max = <<"B", 20>> /\ min = <<"C", 5>>)

C9_Witness ==
    /\ Called("faculty_statistics")
    /\ data = ExampleFacRoster
    /\ ret.val[2] = <<"B", 20>>
    /\ ret.val[3] = <<"C", 5>>

\* row i of df shares its surname with another row of df
SharesSurname(df, i) == \E j \in 1..Len(df) : j /= i /\ df[j].surname = df[i].surname

\* row i of df shares its surname with another row of df of the same course
SharesSurnameInCourse(df, i) ==
    \E j \in 1..Len(df) : j /= i /\ df[j].surname = df[i].surname /\ df[j].crs = df[i].crs

\* C10: on a non-empty slice the total homonym count of
\* find_homonymous_students is the number of records sharing their surname
\* with another record (so never 1), the flag is true exactly when it is > 0,
\* and the per-course counts add up to at most the total, to less when a
\* shared surname occurs only once in some course.
C10_Homonyms ==
    (Called("find_homonymous_students") /\ Len(locals.arg) > 0) =>
        LET df == locals.arg
            exist == ret.val[1]
            total == ret.val[2]
            per_course == SumSeq([k \in 1..Len(ret.val[3]) |-> ret.val[3][k][2]])
        IN /\ ~ret.raised
           /\ total = Cardinality({i \in 1..Len(df) : SharesSurname(df, i)})
           /\ total /= 1
           /\ exist <=> total > 0
           /\ per_course <= total
           /\ (\E i \in 1..Len(df) : SharesSurname(df, i) /\ ~SharesSurnameInCourse(df, i))
                 => per_course < total

C10_Witness ==
    /\ Called("find_homonymous_students")
    /\ Len(locals.arg) = 4
    /\ ret.val[2] = 4
    /\ SumSeq([k \in 1..Len(ret.val[3]) |-> ret.val[3][k][2]]) = 2

(***************************************************************************)
(* The queries on one roster, called in any order.                         *)
(***************************************************************************)
Petr == <<"PE", "ie", "er">>
Pyotr == <<"PE", "yo", "er">>
Anna == <<"a", "en", "en", "a">>

\* the rows a roster is drawn from: <<faculty, course, group, surname, name,
\* patronymic, grade>>
RowSamples ==
    {<<FSUIR, 3, 31, "s1", Petr, Ivanovich, 5>>,
     <<FSUIR, 3, 31, "s1", Anna, Ivanovna, 4>>,
     <<FSUIR, 1, 12, "s2", Anna, Ivanovna, 5>>,
     <<"B", 3, 32, "s2", Anna, <<>>, 3>>,
     <<"B", 1, 11, "s1", Pyotr, Semyonovna, 4>>}

\* student numbers fall with the row number, so the roster is not sorted
SampleRow(i, x) == Row(MaxRows + 1 - i, x[1], x[2], x[3], x[4], x[5], x[6], x[7])

Init ==
    /\ data \in {[i \in 1..Len(f) |-> SampleRow(i, f[i])] :
                    f \in Tuples(RowSamples, MaxRows) \ {<<>>}}
    /\ fsuir = NoSlice
    /\ patronym = NoValue
    /\ locals = NoValue
    /\ ret = NoValue

Next ==
    \/ FilterFsuirStudents
    \/ FindHomonymousStudents
    \/ AnalyzePatronyms
    \/ FacultyStatistics
    \/ CourseStatistics
    \/ MostPopularName
    \/ FindStudentsWithNameStartingP
    \/ HighestAvgGradeFaculty
    \/ FindConsecutiveStudents

Spec == Init /\ [][Next]_vars

\* C7: the roster is read-only: whatever queries are called, in whatever
\* order, the roster (and a slice handed to a query) keeps its rows, their
\* order and its columns; derived columns and re-sorting land on copies.
C7_RosterReadOnly ==
    [][/\ data' = data
       /\ fsuir.set => fsuir' = fsuir]_vars

C7_Witness ==
    /\ Called("highest_avg_grade_faculty")
    /\ ~ret.raised
    /\ fsuir.set
    /\ Len(locals.crs_stat) >= 2
    /\ \E i \in 1..Len(locals.crs_stat) : locals.crs_stat[i].pol = "male"
    /\ \E i, j \in 1..Len(data) : i < j /\ data[i].crs > data[j].crs

\* the rows the last query worked on: its argument, or for
\* highest_avg_grade_faculty the third-course rows
QueriedRows ==
    IF ret.fn = "highest_avg_grade_faculty" THEN locals.crs_stat ELSE locals.arg

\* C8: a query on a subset without rows (no student of the filtered faculty,
\* no third-course student) ends with an empty or zero result and does not
\* raise.
C8_EmptySubsetNoRaise ==
    (ret /= NoValue /\ ret.fn /= "gender_identification" /\ Len(QueriedRows) = 0)
        => ~ret.raised

====
